---- MODULE Spec2Model ----
(***************************************************************************)
(* Model of src/src/extension.ts: the "generate commit message" command of *)
(* the extension (generateCommitMessage) and the child-process boundary    *)
(* (runPythonScript).                                                      *)
(*                                                                         *)
(* Text is modelled as a sequence of symbols.  Each symbol is a TLA+       *)
(* string that stands for a fixed fragment of the real text: "{" and "}"   *)
(* are the brace characters, "\"" is a double quote, "\"success\":" is a   *)
(* quoted key followed by its colon, and so on.  Concatenation of text is  *)
(* concatenation of sequences, so lastIndexOf, substring, includes and     *)
(* JSON.parse are computed over the symbols the way the code computes them *)
(* over characters.                                                        *)
(***************************************************************************)
EXTENDS Integers, Sequences, FiniteSets, TLC

(***************************************************************************)
(* Bounds of the model.                                                    *)
(***************************************************************************)
\* data events (stdout and stderr together) one process may deliver
MaxChunks == 2
\* data events one process may deliver when two invocations overlap
MaxOverlapChunks == 1
\* user-initiated generate actions in one behaviour
MaxActions == 2
\* repositories the source-control integration may track
MaxRepos == 2

(***************************************************************************)
(* Symbols.                                                                *)
(***************************************************************************)
LB == "{"
RB == "}"
QT == "\""
COMMA == ","
KSuccess == "\"success\":"
KMessage == "\"commit_message\":"
KError == "\"error\":"
KMeta == "\"meta\":"
KeySyms == {KSuccess, KMessage, KError, KMeta}

\* the substring tested at extension.ts:177, as two adjacent symbols
NoChangesDetected == <<"No changes", " detected">>
\* the fallback error text of extension.ts:176
DefaultError == <<"Failed to generate commit message">>

(***************************************************************************)
(* JavaScript values produced by JSON.parse.  One record shape for every   *)
(* value: t is the type, b the boolean, s the string (sequence of symbols) *)
(* and o the object as a sequence of <<key, value>> pairs in source order. *)
(***************************************************************************)
JUndefined == [t |-> "undefined", b |-> FALSE, s |-> <<>>, o |-> <<>>]
JNull == [t |-> "null", b |-> FALSE, s |-> <<>>, o |-> <<>>]
JBool(x) == [t |-> "boolean", b |-> x, s |-> <<>>, o |-> <<>>]
JStr(x) == [t |-> "string", b |-> FALSE, s |-> x, o |-> <<>>]
JObj(pairs) == [t |-> "object", b |-> FALSE, s |-> <<>>, o |-> pairs]

\* property read  v.key : the last pair with that key wins, as in JSON.parse
RECURSIVE GetFrom(_, _, _)
GetFrom(pairs, key, n) ==
    IF n = 0 THEN JUndefined
    ELSE IF pairs[n][1] = key THEN pairs[n][2]
    ELSE GetFrom(pairs, key, n - 1)

Get(v, key) == IF v.t = "object" THEN GetFrom(v.o, key, Len(v.o)) ELSE JUndefined

\* JavaScript truthiness, as used by && and || at extension.ts:157 and 176
Truthy(v) ==
    CASE v.t = "boolean" -> v.b
      [] v.t = "string" -> v.s # <<>>
      [] v.t = "object" -> TRUE
      [] OTHER -> FALSE

\* template-literal conversion `${v}`
ToText(v) ==
    CASE v.t = "string" -> v.s
      [] v.t = "boolean" -> IF v.b THEN <<"true">> ELSE <<"false">>
      [] v.t = "object" -> <<"[object Object]">>
      [] v.t = "null" -> <<"null">>
      [] OTHER -> <<"undefined">>

(***************************************************************************)
(* String.prototype.lastIndexOf, substring and includes.                   *)
(* Indices are 0-based as in JavaScript.                                   *)
(***************************************************************************)
RECURSIVE LastIndexFrom(_, _, _)
LastIndexFrom(s, sym, n) ==
    IF n = 0 THEN -1
    ELSE IF s[n] = sym THEN n - 1
    ELSE LastIndexFrom(s, sym, n - 1)

LastIndexOf(s, sym) == LastIndexFrom(s, sym, Len(s))

\* s.substring(start): a negative start is treated as 0
Substring(s, start) ==
    LET from == IF start < 0 THEN 0 ELSE start
    IN  SubSeq(s, from + 1, Len(s))

\* mutant of Includes: the text must equal the substring
Includes_Exact(s, sub) == s = sub

Includes(s, sub) ==
    \E k \in 0..(Len(s) - Len(sub)) : SubSeq(s, k + 1, k + Len(sub)) = sub

(***************************************************************************)
(* JSON.parse over symbols.  A parse step returns [ok, v, p]: whether a    *)
(* value was read, the value, and the 1-based position after it.           *)
(*   value  ::= "true" | "false" | "null" | string | object                *)
(*   string ::= QT (any symbol that contains no quote)* QT                 *)
(*   object ::= LB RB | LB key value (COMMA key value)* RB                 *)
(* A key symbol is a quoted name with its colon.                           *)
(***************************************************************************)
PFail == [ok |-> FALSE, v |-> JUndefined, p |-> 0]
POk(val, pos) == [ok |-> TRUE, v |-> val, p |-> pos]

\* symbols that contain a double quote end a string literal
HasQuote(sym) == sym = QT \/ sym \in KeySyms

RECURSIVE StringEnd(_, _)
\* position of the closing quote of a string whose content starts at p, 0 if none
StringEnd(s, p) ==
    IF p > Len(s) THEN 0
    ELSE IF s[p] = QT THEN p
    ELSE IF HasQuote(s[p]) THEN 0
    ELSE StringEnd(s, p + 1)

RECURSIVE ParseValue(_, _)
RECURSIVE ParseMembers(_, _, _)
ParseValue(s, p) ==
    IF p > Len(s) THEN PFail
    ELSE IF s[p] = "true" THEN POk(JBool(TRUE), p + 1)
    ELSE IF s[p] = "false" THEN POk(JBool(FALSE), p + 1)
    ELSE IF s[p] = "null" THEN POk(JNull, p + 1)
    ELSE IF s[p] = QT THEN
        LET e == StringEnd(s, p + 1)
        IN  IF e = 0 THEN PFail ELSE POk(JStr(SubSeq(s, p + 1, e - 1)), e + 1)
    ELSE IF s[p] = LB THEN
        IF p + 1 <= Len(s) /\ s[p + 1] = RB THEN POk(JObj(<<>>), p + 2)
        ELSE ParseMembers(s, p + 1, <<>>)
    ELSE PFail

\* members of an object from position p on, acc holds the pairs read so far
ParseMembers(s, p, acc) ==
    IF p > Len(s) \/ s[p] \notin KeySyms THEN PFail
    ELSE LET r == ParseValue(s, p + 1)
         IN  IF ~r.ok \/ r.p > Len(s) THEN PFail
             ELSE LET pairs == Append(acc, <<s[p], r.v>>)
                  IN  IF s[r.p] = RB THEN POk(JObj(pairs), r.p + 1)
                      ELSE IF s[r.p] = COMMA THEN ParseMembers(s, r.p + 1, pairs)
                      ELSE PFail

\* JSON.parse(text): the whole text must be one value, else SyntaxError
JSONParse(text) ==
    LET r == ParseValue(text, 1)
    IN  IF r.ok /\ r.p = Len(text) + 1 THEN r ELSE PFail

(***************************************************************************)
(* What the generator process can write.  The process is opaque: any chunk *)
(* of StdoutChunks may arrive on stdout and any chunk of StderrChunks on   *)
(* stderr, in any order, up to MaxChunks data events.                      *)
(***************************************************************************)
LogText == <<"Cloning...">>
ObjSuccess == <<LB, KSuccess, "true", COMMA, KMessage, QT, "feat: add parser", QT, RB>>
ObjNoChanges ==
    <<LB, KSuccess, "false", COMMA, KError, QT, "No changes", " detected", " in repository", QT, RB>>
ObjFailure == <<LB, KSuccess, "false", COMMA, KError, QT, "boom", QT, RB>>
ObjNoError == <<LB, KSuccess, "true", RB>>
ObjBraceInMessage == <<LB, KSuccess, "true", COMMA, KMessage, QT, "fix ", LB, "x", QT, RB>>
ObjNested == <<LB, KSuccess, "true", COMMA, KMessage, QT, "fix", QT, COMMA, KMeta, LB, RB, RB>>
ObjErrorNotString == <<LB, KSuccess, "false", COMMA, KError, "true", RB>>
NullText == <<"null">>
\* an object whose commit_message is not a string
ObjMessageNotString == <<LB, KSuccess, "true", COMMA, KMessage, "true", RB>>

StdoutChunks ==
    {LogText, ObjSuccess, ObjNoChanges, ObjFailure, ObjNoError, ObjBraceInMessage,
     ObjNested, ObjErrorNotString, NullText, ObjMessageNotString}

\* a second success object, with another message
ObjSuccessFix == <<LB, KSuccess, "true", COMMA, KMessage, QT, "fix: typo", QT, RB>>

\* the outputs of the scenario with two overlapping invocations
OverlapChunks == {ObjSuccess, ObjSuccessFix}

AllChunks == StdoutChunks \cup OverlapChunks

StderrChunks == {<<"ModuleNotFoundError">>, NoChangesDetected}

\* exit status delivered with the close event; "null" is termination by a signal
ExitCodes == {"0", "1", "null"}
\* status of the close event that follows a failed spawn
SpawnFailCode == "-2"

\* the googleApiKey setting: "undefined" stands for a setting that is not set
ApiKeys == {"undefined", "", "AIza"}

Inv == {1, 2}

VARIABLES
    folder,        \* vscode.workspace.workspaceFolders has a first entry
    apiKey,        \* config.get('googleApiKey')
    gitAvailable,  \* the vscode.git extension exports an API
    nRepos,        \* git.repositories.length
    live,          \* the invocation slots the user drives in this scenario
    emits,         \* the stdout chunks the generator writes in this scenario
    pc,            \* position of each generateCommitMessage call
    proc,          \* state of each child process
    stdout,        \* the stdout buffer of each runPythonScript call
    stderr,        \* the stderr buffer of each runPythonScript call
    chunks,        \* data events delivered by each process
    promise,       \* the promise returned by each runPythonScript call
    cancelRequested, \* token.isCancellationRequested
    kills,         \* signals sent to each process by process.kill()
    parses,        \* JSON.parse calls made by each close handler
    exitCode,      \* the code the close handler was called with
    notices,       \* the notifications each invocation has shown
    writes,        \* the commit-message writes each invocation has issued
    settingsOpened, \* workbench.action.openSettings was executed
    inputBox,      \* repo.inputBox.value of every repository
    clipboard,     \* the clipboard text
    spawns,        \* calls of spawn()
    actions,       \* generate commands the user has triggered
    temperature,   \* config.get('temperature')
    maxTokens,     \* config.get('maxTokens')
    modelName,     \* config.get('model')
    args,          \* the arguments each invocation passed to spawn
    startNo,       \* the number of the user action that started each invocation
    lastClosed,    \* the number of the invocation whose close event came last
    setupPc,       \* position of checkPythonSetup
    pythonProbe,   \* outcome of the interpreter probe of checkPythonSetup
    depsProbe,     \* outcome of the dependency probe of checkPythonSetup
    prompts        \* the prompts checkPythonSetup and setupPythonEnvironment have shown

settings == <<folder, apiKey, gitAvailable, nRepos, live, emits, temperature, maxTokens,
              modelName>>
setup == <<setupPc, pythonProbe, depsProbe, prompts>>
env == <<settings, setup>>
launch == <<startNo, args>>
slot == <<pc, proc, stdout, stderr, chunks, promise, cancelRequested, kills, parses,
          exitCode, notices, writes, settingsOpened>>
shared == <<inputBox, clipboard, spawns, actions>>
vars == <<env, slot, shared, launch, lastClosed>>

(***************************************************************************)
(* The numeric settings.  A setting is either not set or a number; the     *)
(* temperature is counted in tenths (0 is 0.0, 10 is 1.0).                 *)
(***************************************************************************)
Unset == [set |-> FALSE, n |-> 0]
Num(x) == [set |-> TRUE, n |-> x]
TempSettings == {Unset, Num(0), Num(5), Num(10)}
TokenSettings == {Unset, Num(1), Num(256)}
ModelSettings == {"undefined", "", "gemini-1.5-pro"}

\* defaults of lines 141-143: 0.3 (in tenths), 100, 'gemini-1.5-flash'
DefaultTemperature == 3
DefaultMaxTokens == 100
DefaultModel == "gemini-1.5-flash"

\* config.get<number>(...) || fallback : undefined and 0 are falsy
OrDefault(setting, fallback) == IF setting.set /\ setting.n # 0 THEN setting.n ELSE fallback

\* Number.prototype.toString of n tenths
TenthsToString(n) ==
    IF n % 10 = 0 THEN ToString(n \div 10)
    ELSE ToString(n \div 10) \o "." \o ToString(n % 10)

\* lines 137-145: the named arguments of the generator
BuildArgs ==
    [apiKey |-> apiKey,
     model |-> IF modelName \in {"undefined", ""} THEN DefaultModel ELSE modelName,
     temperature |-> TenthsToString(OrDefault(temperature, DefaultTemperature)),
     maxTokens |-> ToString(OrDefault(maxTokens, DefaultMaxTokens))]

NoArgs == [apiKey |-> "", model |-> "", temperature |-> "", maxTokens |-> ""]

Pending == [state |-> "pending", value |-> JUndefined, reason |-> <<>>]
NoPromise == [state |-> "none", value |-> JUndefined, reason |-> <<>>]
Resolved(v) == [state |-> "resolved", value |-> v, reason |-> <<>>]
Rejected(msg) == [state |-> "rejected", value |-> JUndefined, reason |-> msg]

Notice(level, text) == [level |-> level, text |-> text]

\* new Error(...) messages of runPythonScript
CancelReason == <<"Operation was cancelled">>
ParseReason(out) == <<"Failed to parse Python script output: ">> \o out
ExitReason(code, err) == <<"Python script failed with code ", code, ": ">> \o err
StartReason == <<"Failed to start Python script: ", "spawn ENOENT">>
TypeErrorReason == <<"TypeError">>

EmptyBox == JStr(<<>>)

InitSlots ==
    /\ pc = [i \in Inv |-> "Idle"]
    /\ proc = [i \in Inv |-> "none"]
    /\ stdout = [i \in Inv |-> <<>>]
    /\ stderr = [i \in Inv |-> <<>>]
    /\ chunks = [i \in Inv |-> 0]
    /\ promise = [i \in Inv |-> NoPromise]
    /\ cancelRequested = [i \in Inv |-> FALSE]
    /\ kills = [i \in Inv |-> 0]
    /\ parses = [i \in Inv |-> 0]
    /\ exitCode = [i \in Inv |-> "none"]
    /\ notices = [i \in Inv |-> <<>>]
    /\ writes = [i \in Inv |-> <<>>]
    /\ settingsOpened = [i \in Inv |-> FALSE]
    /\ clipboard = EmptyBox
    /\ spawns = 0
    /\ actions = 0
    /\ args = [i \in Inv |-> NoArgs]
    /\ startNo = [i \in Inv |-> 0]
    /\ lastClosed = 0

InitEnv ==
    /\ folder \in BOOLEAN
    /\ apiKey \in ApiKeys
    /\ gitAvailable \in BOOLEAN
    /\ nRepos \in 0..MaxRepos
    /\ (~gitAvailable => nRepos = 0)
    /\ inputBox = [r \in 1..nRepos |-> EmptyBox]

\* the numeric settings and the model are not set
InitDefaults ==
    /\ temperature = Unset
    /\ maxTokens = Unset
    /\ modelName = "undefined"

\* checkPythonSetup has run and both probes passed
InitSetupPassed ==
    /\ setupPc = "Done"
    /\ pythonProbe = "ok"
    /\ depsProbe = "ok"
    /\ prompts = <<>>

\* one invocation at a time, every output the generator can write
Init ==
    /\ InitEnv
    /\ InitSlots
    /\ InitDefaults
    /\ InitSetupPassed
    /\ live = {1}
    /\ emits = StdoutChunks

(***************************************************************************)
(* Scheduling.  A promise continuation is a microtask and the 'error'      *)
(* event of a failed spawn is a nextTick callback: both run before the     *)
(* event loop delivers any further event.                                  *)
(***************************************************************************)
Urgent(i) == pc[i] = "Resumed" \/ proc[i] = "failing"
Quiet == \A j \in Inv : ~Urgent(j)

\* mutant of Settle: every call of resolve or reject replaces the outcome
Settle_LastWins(i, outcome) == outcome

\* resolve/reject of the promise: only the first settlement takes effect
Settle(i, outcome) ==
    IF promise[i].state = "pending" THEN outcome ELSE promise[i]

\* mutant of Resume: the continuation runs again on every later event
Resume_Always(i, newPromise) ==
    IF newPromise.state # "pending" THEN "Resumed" ELSE pc[i]

\* the await at extension.ts:149 resumes once the promise is settled
Resume(i, newPromise) ==
    IF pc[i] = "AwaitRun" /\ newPromise.state # "pending" THEN "Resumed" ELSE pc[i]

\* mutant of KeyMissing: only a setting that is not set counts as missing
KeyMissing_UndefinedOnly == apiKey = "undefined"

\* line 118: !apiKey
KeyMissing == apiKey \in {"undefined", ""}

\* the commands the user runs in the scenario: with overlapping invocations,
\* one command for each of them
ActionLimit == IF Cardinality(live) > 1 THEN Cardinality(live) ELSE MaxActions

(***************************************************************************)
(* generateCommitMessage, lines 108-149: from the command to the await of  *)
(* runPythonScript, including spawn and the registration of the handlers   *)
(* (lines 194-231).  The slot of a finished invocation whose process is    *)
(* gone is reused: its closure is garbage.                                 *)
(***************************************************************************)
Generate(i, spawnOk) ==
    /\ Quiet
    /\ i \in live
    /\ actions < ActionLimit
    /\ pc[i] \in {"Idle", "Done"}
    /\ proc[i] \in {"none", "closed"}
    /\ actions' = actions + 1
    /\ stdout' = [stdout EXCEPT ![i] = <<>>]
    /\ stderr' = [stderr EXCEPT ![i] = <<>>]
    /\ chunks' = [chunks EXCEPT ![i] = 0]
    /\ cancelRequested' = [cancelRequested EXCEPT ![i] = FALSE]
    /\ kills' = [kills EXCEPT ![i] = 0]
    /\ parses' = [parses EXCEPT ![i] = 0]
    /\ exitCode' = [exitCode EXCEPT ![i] = "none"]
    /\ writes' = [writes EXCEPT ![i] = <<>>]
    /\ settingsOpened' = [settingsOpened EXCEPT ![i] = FALSE]
    /\ IF ~folder THEN
            /\ notices' = [notices EXCEPT ![i] =
                    <<Notice("error", <<"No workspace folder found. Please open a project.">>)>>]
            /\ pc' = [pc EXCEPT ![i] = "Done"]
            /\ proc' = [proc EXCEPT ![i] = "none"]
            /\ promise' = [promise EXCEPT ![i] = NoPromise]
            /\ spawns' = spawns
       ELSE IF KeyMissing THEN
            /\ notices' = [notices EXCEPT ![i] =
                    <<Notice("error",
                        <<"Google AI API Key is not configured. Please set it in settings.">>)>>]
            /\ pc' = [pc EXCEPT ![i] = "KeyNotice"]
            /\ proc' = [proc EXCEPT ![i] = "none"]
            /\ promise' = [promise EXCEPT ![i] = NoPromise]
            /\ spawns' = spawns
       ELSE
            /\ notices' = [notices EXCEPT ![i] = <<>>]
            /\ spawns' = spawns + 1
            /\ proc' = [proc EXCEPT ![i] = IF spawnOk THEN "running" ELSE "failing"]
            /\ promise' = [promise EXCEPT ![i] = Pending]
            /\ pc' = [pc EXCEPT ![i] = "AwaitRun"]
    /\ startNo' = [startNo EXCEPT ![i] = actions + 1]
    /\ args' = [args EXCEPT ![i] = IF folder /\ ~KeyMissing THEN BuildArgs ELSE NoArgs]
    /\ UNCHANGED <<env, lastClosed, inputBox, clipboard>>

\* lines 119-126: the user answers or dismisses the missing-key notice
KeyNoticeAnswer(i, openSettings) ==
    /\ Quiet
    /\ pc[i] = "KeyNotice"
    /\ settingsOpened' = [settingsOpened EXCEPT ![i] = openSettings]
    /\ pc' = [pc EXCEPT ![i] = "Done"]
    /\ UNCHANGED <<env, launch, lastClosed, shared, proc, stdout, stderr, chunks, promise, cancelRequested,
                   kills, parses, exitCode, notices, writes>>

\* the data events one process delivers in the scenario
ChunkLimit == IF Cardinality(live) > 1 THEN MaxOverlapChunks ELSE MaxChunks

\* mutant of StdoutData: one buffer outside the closure, shared by all invocations
StdoutData_Shared(i, data) ==
    /\ Quiet
    /\ proc[i] = "running"
    /\ chunks[i] < ChunkLimit
    /\ data \in emits
    /\ stdout' = [j \in Inv |-> stdout[j] \o data]
    /\ chunks' = [chunks EXCEPT ![i] = @ + 1]
    /\ UNCHANGED <<env, launch, lastClosed, shared, pc, proc, stderr, promise,
                   cancelRequested, kills, parses, exitCode, notices, writes, settingsOpened>>

\* mutant of StdoutData: the buffer is assigned, not appended to
StdoutData_Overwrite(i, data) ==
    /\ Quiet
    /\ proc[i] = "running"
    /\ chunks[i] < ChunkLimit
    /\ data \in emits
    /\ stdout' = [stdout EXCEPT ![i] = data]
    /\ chunks' = [chunks EXCEPT ![i] = @ + 1]
    /\ UNCHANGED <<env, launch, lastClosed, shared, pc, proc, stderr, promise, cancelRequested, kills, parses,
                   exitCode, notices, writes, settingsOpened>>

\* lines 205-207
StdoutData(i, data) ==
    /\ Quiet
    /\ proc[i] = "running"
    /\ chunks[i] < ChunkLimit
    /\ data \in emits
    /\ stdout' = [stdout EXCEPT ![i] = @ \o data]
    /\ chunks' = [chunks EXCEPT ![i] = @ + 1]
    /\ UNCHANGED <<env, launch, lastClosed, shared, pc, proc, stderr, promise, cancelRequested, kills, parses,
                   exitCode, notices, writes, settingsOpened>>

\* lines 209-211
StderrData(i, data) ==
    /\ Quiet
    /\ proc[i] = "running"
    /\ chunks[i] < ChunkLimit
    /\ stderr' = [stderr EXCEPT ![i] = @ \o data]
    /\ chunks' = [chunks EXCEPT ![i] = @ + 1]
    /\ UNCHANGED <<env, launch, lastClosed, shared, pc, proc, stdout, promise, cancelRequested, kills, parses,
                   exitCode, notices, writes, settingsOpened>>

\* mutant of CloseOutcome: the output is parsed before the exit code is looked at
CloseOutcome_ParseFirst(code, out, err) ==
    LET r == JSONParse(Substring(out, LastIndexOf(out, LB)))
    IN  IF r.ok THEN Resolved(r.v)
        ELSE IF code = "0" THEN Rejected(ParseReason(out))
        ELSE Rejected(ExitReason(code, err))

\* lines 213-227: what the close handler passes to resolve or reject
CloseOutcome(code, out, err) ==
    IF code = "0" THEN
        LET jsonStart == LastIndexOf(out, LB)
            jsonPart == Substring(out, jsonStart)
            r == JSONParse(jsonPart)
        IN  IF r.ok THEN Resolved(r.v) ELSE Rejected(ParseReason(out))
    ELSE Rejected(ExitReason(code, err))

\* lines 213-227: the 'close' event
Close(i, code) ==
    /\ Quiet
    /\ \/ proc[i] = "running" /\ code \in ExitCodes
       \/ proc[i] = "errored" /\ code = SpawnFailCode
    /\ proc' = [proc EXCEPT ![i] = "closed"]
    /\ exitCode' = [exitCode EXCEPT ![i] = code]
    /\ lastClosed' = startNo[i]
    /\ parses' = [parses EXCEPT ![i] = IF code = "0" THEN @ + 1 ELSE @]
    /\ LET np == Settle(i, CloseOutcome(code, stdout[i], stderr[i]))
       IN  /\ promise' = [promise EXCEPT ![i] = np]
           /\ pc' = [pc EXCEPT ![i] = Resume(i, np)]
    /\ UNCHANGED <<env, launch, shared, stdout, stderr, chunks, cancelRequested, kills, notices,
                   writes, settingsOpened>>

\* lines 229-231: the 'error' event of a spawn that failed
ErrorEvent(i) ==
    /\ proc[i] = "failing"
    /\ proc' = [proc EXCEPT ![i] = "errored"]
    /\ LET np == Settle(i, Rejected(StartReason))
       IN  /\ promise' = [promise EXCEPT ![i] = np]
           /\ pc' = [pc EXCEPT ![i] = Resume(i, np)]
    /\ UNCHANGED <<env, launch, lastClosed, shared, stdout, stderr, chunks, cancelRequested, kills, parses,
                   exitCode, notices, writes, settingsOpened>>

\* mutant of Cancel: the listener kills the process and leaves the promise alone
Cancel_KillOnly(i) ==
    /\ Quiet
    /\ pc[i] \in {"AwaitRun", "Clipboard"}
    /\ ~cancelRequested[i]
    /\ cancelRequested' = [cancelRequested EXCEPT ![i] = TRUE]
    /\ kills' = [kills EXCEPT ![i] = IF proc[i] = "running" THEN @ + 1 ELSE @]
    /\ UNCHANGED <<env, launch, lastClosed, shared, pc, promise, proc, stdout, stderr, chunks, parses, exitCode,
                   notices, writes, settingsOpened>>

\* lines 199-203: the user cancels the progress notification while its task runs
Cancel(i) ==
    /\ Quiet
    /\ pc[i] \in {"AwaitRun", "Clipboard"}
    /\ ~cancelRequested[i]
    /\ cancelRequested' = [cancelRequested EXCEPT ![i] = TRUE]
    /\ kills' = [kills EXCEPT ![i] = IF proc[i] = "running" THEN @ + 1 ELSE @]
    /\ LET np == Settle(i, Rejected(CancelReason))
       IN  /\ promise' = [promise EXCEPT ![i] = np]
           /\ pc' = [pc EXCEPT ![i] = Resume(i, np)]
    /\ UNCHANGED <<env, launch, lastClosed, shared, proc, stdout, stderr, chunks, parses, exitCode, notices,
                   writes, settingsOpened>>

\* lines 185-190: the catch block
CatchNotice(message) ==
    Notice("error", <<"Failed to generate commit message: ">> \o message)

\* lines 175-182: the notice of a result that is not a success.
\* A non-string error text has no includes method: TypeError, caught at line 185.
FailureNotice(result) ==
    LET err == Get(result, KError)
        errorMessage == IF Truthy(err) THEN err ELSE JStr(DefaultError)
    IN  IF errorMessage.t # "string" THEN CatchNotice(TypeErrorReason)
        ELSE IF Includes(errorMessage.s, NoChangesDetected)
             THEN Notice("warning", <<"No changes detected to generate commit message.">>)
             ELSE Notice("error", <<"Error: ">> \o errorMessage.s)

\* mutant of IsSuccess: the commit message is not looked at
IsSuccess_FlagOnly(result) == Truthy(Get(result, KSuccess))

\* line 157
IsSuccess(result) == Truthy(Get(result, KSuccess)) /\ Truthy(Get(result, KMessage))

\* mutant of UseScm: the repository list is not checked
UseScm_IgnoreRepos == gitAvailable

\* line 164
UseScm == gitAvailable /\ nRepos > 0

\* mutant of ScmWrite: an input box that already holds a message is left alone
ScmWrite_KeepFirst(box, msg) ==
    IF box[1] = EmptyBox THEN [box EXCEPT ![1] = msg] ELSE box

\* lines 165-166: repo = git.repositories[0]; repo.inputBox.value = message
ScmWrite(box, msg) == [box EXCEPT ![1] = msg]

Show(i, n) == notices' = [notices EXCEPT ![i] = Append(@, n)]

\* mutant of Continue: a rejected run is started again, anything else ends silently
Continue_Retry(i) ==
    /\ pc[i] = "Resumed"
    /\ IF promise[i].state = "rejected" /\ proc[i] = "closed" /\ spawns < MaxActions + 1 THEN
            /\ spawns' = spawns + 1
            /\ proc' = [proc EXCEPT ![i] = "running"]
            /\ promise' = [promise EXCEPT ![i] = Pending]
            /\ pc' = [pc EXCEPT ![i] = "AwaitRun"]
       ELSE
            /\ pc' = [pc EXCEPT ![i] = "Done"]
            /\ UNCHANGED <<spawns, proc, promise>>
    /\ UNCHANGED <<env, launch, lastClosed, clipboard, inputBox, actions, stdout, stderr, chunks, cancelRequested,
                   kills, parses, exitCode, settingsOpened, notices, writes>>

\* lines 149-182 and 185-190: generateCommitMessage after the await
Continue(i) ==
    /\ pc[i] = "Resumed"
    /\ LET result == promise[i].value
           msg == Get(result, KMessage)
       IN  IF promise[i].state = "rejected" THEN
                /\ Show(i, CatchNotice(promise[i].reason))
                /\ pc' = [pc EXCEPT ![i] = "Done"]
                /\ UNCHANGED <<inputBox, writes>>
           ELSE IF cancelRequested[i] THEN
                /\ pc' = [pc EXCEPT ![i] = "Done"]
                /\ UNCHANGED <<notices, inputBox, writes>>
           ELSE IF result.t = "null" THEN
                /\ Show(i, CatchNotice(TypeErrorReason))
                /\ pc' = [pc EXCEPT ![i] = "Done"]
                /\ UNCHANGED <<inputBox, writes>>
           ELSE IF IsSuccess(result) THEN
                IF UseScm THEN
                    /\ inputBox' = ScmWrite(inputBox, msg)
                    /\ writes' = [writes EXCEPT ![i] =
                            Append(@, [target |-> "scm", value |-> msg])]
                    /\ Show(i, Notice("info", <<"Generated: \"">> \o ToText(msg) \o <<"\"">>))
                    /\ pc' = [pc EXCEPT ![i] = "Done"]
                ELSE
                    /\ writes' = [writes EXCEPT ![i] =
                            Append(@, [target |-> "clipboard", value |-> msg])]
                    /\ pc' = [pc EXCEPT ![i] = "Clipboard"]
                    /\ UNCHANGED <<notices, inputBox>>
           ELSE
                /\ Show(i, FailureNotice(result))
                /\ pc' = [pc EXCEPT ![i] = "Done"]
                /\ UNCHANGED <<inputBox, writes>>
    /\ UNCHANGED <<env, launch, lastClosed, clipboard, spawns, actions, proc, stdout, stderr, chunks, promise,
                   cancelRequested, kills, parses, exitCode, settingsOpened>>

\* lines 170-173: the clipboard.writeText called at line 170 completes: the text is on
\* the clipboard and the notice is shown
ClipboardDone(i) ==
    /\ Quiet
    /\ pc[i] = "Clipboard"
    /\ LET msg == Get(promise[i].value, KMessage)
       IN  /\ clipboard' = msg
           /\ Show(i, Notice("info",
                    <<"Generated (copied to clipboard): \"">> \o ToText(msg) \o <<"\"">>))
    /\ pc' = [pc EXCEPT ![i] = "Done"]
    /\ UNCHANGED <<env, launch, lastClosed, writes, inputBox, spawns, actions, proc, stdout, stderr, chunks, promise,
                   cancelRequested, kills, parses, exitCode, settingsOpened>>

Next ==
    \E i \in Inv :
        \/ \E spawnOk \in BOOLEAN : Generate(i, spawnOk)
        \/ \E openSettings \in BOOLEAN : KeyNoticeAnswer(i, openSettings)
        \/ \E data \in AllChunks : StdoutData(i, data)
        \/ \E data \in StderrChunks : StderrData(i, data)
        \/ \E code \in ExitCodes \cup {SpawnFailCode} : Close(i, code)
        \/ ErrorEvent(i)
        \/ Cancel(i)
        \/ Continue(i)
        \/ ClipboardDone(i)

Spec == Init /\ [][Next]_vars

\* two invocations the user may overlap, each process writing success objects
InitOverlap ==
    /\ folder = TRUE
    /\ apiKey \in {"", "AIza"}
    /\ gitAvailable \in BOOLEAN
    /\ nRepos = (IF gitAvailable THEN MaxRepos ELSE 0)
    /\ inputBox = [r \in 1..nRepos |-> EmptyBox]
    /\ InitSlots
    /\ InitDefaults
    /\ InitSetupPassed
    /\ live = Inv
    /\ emits = OverlapChunks

SpecOverlap == InitOverlap /\ [][Next]_vars

\* one invocation under every combination of the generator settings
InitArgs ==
    /\ folder = TRUE
    /\ apiKey \in {"", "AIza"}
    /\ gitAvailable \in BOOLEAN
    /\ nRepos = (IF gitAvailable THEN 1 ELSE 0)
    /\ inputBox = [r \in 1..nRepos |-> EmptyBox]
    /\ InitSlots
    /\ InitSetupPassed
    /\ temperature \in TempSettings
    /\ maxTokens \in TokenSettings
    /\ modelName \in ModelSettings
    /\ live = {1}
    /\ emits = {ObjSuccess}

SpecArgs == InitArgs /\ [][Next]_vars

(***************************************************************************)
(* checkPythonSetup, lines 33-69, started by activate (line 30) and not     *)
(* awaited: its steps interleave with the Generate command.  A prompt is    *)
(* a notification with the actions it offers.                               *)
(***************************************************************************)
Prompt(level, text, items) == [level |-> level, text |-> text, items |-> items]

\* lines 60-63
PythonPrompt ==
    Prompt("error",
           "Python is not available. Please install Python and configure the path in settings.",
           <<"Open Settings">>)

\* lines 49-53
DepsPrompt ==
    Prompt("warning",
           "Python dependencies are not installed. Would you like to install them now?",
           <<"Install Dependencies", "Not Now">>)

\* outcomes of execAsync at line 39: resolves with an empty stderr, resolves with
\* text on stderr, or rejects
VersionResults == {"ok", "stderr", "throws"}

\* answers to a prompt: one of its items, or undefined when it is dismissed
Answers(prompt) == {prompt.items[k] : k \in DOMAIN prompt.items} \cup {"undefined"}

\* mutant of VersionProbe: text on stderr does not count as a failure
VersionProbe_IgnoreStderr(result) ==
    /\ Quiet
    /\ setupPc = "Version"
    /\ pythonProbe' = result
    /\ IF result \in {"ok", "stderr"}
       THEN /\ setupPc' = "Deps"
            /\ prompts' = prompts
       ELSE /\ setupPc' = "ErrorPrompt"
            /\ prompts' = Append(prompts, PythonPrompt)
    /\ UNCHANGED <<settings, slot, shared, launch, lastClosed, depsProbe>>

\* lines 39-43 and 59-63: the interpreter probe; a rejection or any text on
\* stderr lands in the outer catch, which shows the error prompt
VersionProbe(result) ==
    /\ Quiet
    /\ setupPc = "Version"
    /\ pythonProbe' = result
    /\ IF result = "ok"
       THEN /\ setupPc' = "Deps"
            /\ prompts' = prompts
       ELSE /\ setupPc' = "ErrorPrompt"
            /\ prompts' = Append(prompts, PythonPrompt)
    /\ UNCHANGED <<settings, slot, shared, launch, lastClosed, depsProbe>>

\* lines 46-53: the dependency probe, run only after the interpreter probe passed
DepsProbe(ok) ==
    /\ Quiet
    /\ setupPc = "Deps"
    /\ IF ok
       THEN /\ depsProbe' = "ok"
            /\ setupPc' = "Done"
            /\ prompts' = prompts
       ELSE /\ depsProbe' = "failed"
            /\ setupPc' = "DepsPrompt"
            /\ prompts' = Append(prompts, DepsPrompt)
    /\ UNCHANGED <<settings, slot, shared, launch, lastClosed, pythonProbe>>

\* lines 55-57: the answer to the dependency prompt
DepsAnswer(choice) ==
    /\ Quiet
    /\ setupPc = "DepsPrompt"
    /\ setupPc' = (IF choice = "Install Dependencies" THEN "Installing" ELSE "Done")
    /\ UNCHANGED <<settings, slot, shared, launch, lastClosed, pythonProbe, depsProbe, prompts>>

\* setupPythonEnvironment, lines 71-105, as called at line 56: the three commands
\* all pass, or the first failure is reported
SetupEnvironment(ok) ==
    /\ Quiet
    /\ setupPc = "Installing"
    /\ prompts' = Append(prompts,
            IF ok
            THEN Prompt("info", "Python environment setup completed successfully!", <<>>)
            ELSE Prompt("error", "Failed to setup Python environment: Command failed", <<>>))
    /\ setupPc' = "Done"
    /\ UNCHANGED <<settings, slot, shared, launch, lastClosed, pythonProbe, depsProbe>>

\* lines 63-67: the answer to the error prompt
ErrorPromptAnswer(choice) ==
    /\ Quiet
    /\ setupPc = "ErrorPrompt"
    /\ setupPc' = (IF choice = "Open Settings" THEN "OpenedSettings" ELSE "Done")
    /\ UNCHANGED <<settings, slot, shared, launch, lastClosed, pythonProbe, depsProbe, prompts>>

NextSetup ==
    \/ Next
    \/ \E result \in VersionResults : VersionProbe(result)
    \/ \E ok \in BOOLEAN : DepsProbe(ok)
    \/ \E choice \in Answers(DepsPrompt) : DepsAnswer(choice)
    \/ \E ok \in BOOLEAN : SetupEnvironment(ok)
    \/ \E choice \in Answers(PythonPrompt) : ErrorPromptAnswer(choice)

\* activation: the preflight check has not run yet; the user may run one
\* invocation meanwhile
InitSetup ==
    /\ folder = TRUE
    /\ apiKey \in {"", "AIza"}
    /\ gitAvailable \in BOOLEAN
    /\ nRepos = (IF gitAvailable THEN 1 ELSE 0)
    /\ inputBox = [r \in 1..nRepos |-> EmptyBox]
    /\ InitSlots
    /\ InitDefaults
    /\ setupPc = "Version"
    /\ pythonProbe = "pending"
    /\ depsProbe = "pending"
    /\ prompts = <<>>
    /\ live = {1}
    /\ emits = {ObjSuccess}

SpecSetup == InitSetup /\ [][NextSetup]_vars

TypeOK ==
    /\ pc \in [Inv -> {"Idle", "KeyNotice", "AwaitRun", "Resumed", "Clipboard", "Done"}]
    /\ proc \in [Inv -> {"none", "failing", "running", "errored", "closed"}]
    /\ \A i \in Inv : promise[i].state \in {"none", "pending", "resolved", "rejected"}

(***************************************************************************)
(* Terminal states of one invocation that launched a process.              *)
(***************************************************************************)
Terminal(i) == pc[i] = "Done" /\ promise[i].state # "none"
Cancelled(i) == Terminal(i) /\ promise[i] = Rejected(CancelReason)
Succeeded(i) == Terminal(i) /\ writes[i] # <<>>
Failed(i) == Terminal(i) /\ ~Cancelled(i) /\ ~Succeeded(i)

\* the process had started and was still running when cancellation was requested:
\* only then does process.kill() send a signal
CancelledWhileRunning(i) == cancelRequested[i] /\ kills[i] > 0

Levels(i) == {notices[i][k].level : k \in DOMAIN notices[i]}

(***************************************************************************)
(* C1: when cancellation is requested while the process has not exited,    *)
(* the listener asks the process to terminate and rejects the promise with *)
(* the cancellation error in the same step, and the invocation ends in the *)
(* Cancelled terminal state: no commit message is written, and it is       *)
(* neither Succeeded nor Failed, whatever the process does afterwards.     *)
(***************************************************************************)
C1_CancelBeforeExit ==
    /\ [][\A i \in Inv :
            (~cancelRequested[i] /\ cancelRequested'[i] /\ proc[i] = "running")
                => /\ kills'[i] = kills[i] + 1
                   /\ promise'[i] = Rejected(CancelReason)]_vars
    /\ [](\A i \in Inv :
            CancelledWhileRunning(i)
                => /\ promise[i] = Rejected(CancelReason)
                   /\ writes[i] = <<>>
                   /\ pc[i] = "Done" => (Cancelled(i) /\ ~Succeeded(i) /\ ~Failed(i)))

\* the process wrote a success object and exited with status 0 after the cancellation
C1_Witness ==
    \E i \in Inv :
        /\ CancelledWhileRunning(i)
        /\ pc[i] = "Done"
        /\ stdout[i] = ObjSuccess
        /\ exitCode[i] = "0"

(***************************************************************************)
(* C2: an invocation the user cancelled while the generation was running   *)
(* shows no error-level notice.                                            *)
(***************************************************************************)
C2_NoErrorNoticeOnCancel ==
    \A i \in Inv : CancelledWhileRunning(i) => "error" \notin Levels(i)

(***************************************************************************)
(* C3: if stdout is text without braces followed by one well-formed JSON   *)
(* object that runs to the end of the stream, then a close with status 0   *)
(* resolves the promise with exactly that object.                          *)
(***************************************************************************)
\* the offsets k at which a well-formed object starts that runs to the end of out,
\* preceded by text that contains no brace
TrailingObjectStarts(out) ==
    {k \in 0..(Len(out) - 1) :
        /\ \A n \in 1..k : out[n] \notin {LB, RB}
        /\ JSONParse(Substring(out, k)).ok
        /\ JSONParse(Substring(out, k)).v.t = "object"}

C3_TrailingObjectResolved ==
    \A i \in Inv :
        (exitCode[i] = "0" /\ ~cancelRequested[i])
            => \A k \in TrailingObjectStarts(stdout[i]) :
                    promise[i] = Resolved(JSONParse(Substring(stdout[i], k)).v)

(***************************************************************************)
(* C4: when a started process closes with a status other than 0 and no     *)
(* cancellation was requested, JSON.parse is never called, the promise is  *)
(* rejected with a text that carries the exit code followed by the whole   *)
(* stderr buffer, nothing is written, and the one notice shown is an       *)
(* error that carries that text, whatever stdout holds.                    *)
(***************************************************************************)
C4_NonZeroExitFails ==
    \A i \in Inv :
        (exitCode[i] \in ExitCodes \ {"0"} /\ ~cancelRequested[i])
            => /\ parses[i] = 0
               /\ promise[i].state = "rejected"
               /\ Includes(promise[i].reason, <<exitCode[i], ": ">> \o stderr[i])
               /\ SubSeq(promise[i].reason, Len(promise[i].reason) - Len(stderr[i]) + 1,
                         Len(promise[i].reason)) = stderr[i]
               /\ writes[i] = <<>>
               /\ pc[i] = "Done"
                    => /\ Len(notices[i]) = 1
                       /\ notices[i][1].level = "error"
                       /\ Includes(notices[i][1].text, promise[i].reason)

\* status 1 with a well-formed success object on stdout and text on stderr
C4_Witness ==
    \E i \in Inv :
        /\ exitCode[i] = "1"
        /\ ~cancelRequested[i]
        /\ pc[i] = "Done"
        /\ stdout[i] = ObjSuccess
        /\ stderr[i] = <<"ModuleNotFoundError">>

(***************************************************************************)
(* C5: if the API-key setting is not set or empty, no process is spawned:  *)
(* an invocation shows the missing-key notice and ends without ever        *)
(* launching.                                                              *)
(***************************************************************************)
C5_NoSpawnWithoutKey ==
    (apiKey \in {"undefined", ""})
        => /\ spawns = 0
           /\ \A i \in Inv :
                /\ proc[i] = "none"
                /\ promise[i].state = "none"
                /\ pc[i] \in {"Idle", "KeyNotice", "Done"}
                /\ (folder /\ pc[i] # "Idle")
                    => notices[i] = <<Notice("error",
                        <<"Google AI API Key is not configured. Please set it in settings.">>)>>

\* the empty key: the command ran to its end in a workspace
C5_Witness ==
    /\ apiKey = ""
    /\ folder
    /\ \E i \in Inv : pc[i] = "Done" /\ settingsOpened[i]

(***************************************************************************)
(* C6: an invocation in a terminal state has shown exactly one notice, and *)
(* from then on, until the user triggers a new action, it shows no further *)
(* notice, spawns nothing and signals no process, whatever events of its   *)
(* process still arrive.                                                   *)
(***************************************************************************)
C6_OneNoticePerTerminal ==
    [][\A i \in Inv :
        /\ Terminal(i)' => Len(notices'[i]) = 1
        /\ (Terminal(i) /\ actions' = actions)
            => /\ Terminal(i)'
               /\ notices'[i] = notices[i]
               /\ spawns' = spawns
               /\ kills'[i] = kills[i]]_vars

\* the close event of a killed process arrives after the invocation ended as cancelled
C6_Witness ==
    \E i \in Inv :
        /\ Cancelled(i)
        /\ proc[i] = "closed"
        /\ exitCode[i] = "null"
        /\ Len(notices[i]) = 1

(***************************************************************************)
(* C7: spawn is called once for every generate action taken with a         *)
(* workspace folder and an API key, and never otherwise; a spawn happens   *)
(* only in the step in which the user triggers an action.                  *)
(***************************************************************************)
C7_OneSpawnPerAction ==
    /\ [](spawns = IF folder /\ apiKey = "AIza" THEN actions ELSE 0)
    /\ [][spawns' # spawns => (spawns' = spawns + 1 /\ actions' = actions + 1)]_vars

\* a second action after a first one: the last invocation failed and stays failed
C7_Witness ==
    /\ actions = 2
    /\ spawns = 2
    /\ \E i \in Inv : Failed(i) /\ proc[i] = "closed"

(***************************************************************************)
(* C8: a failure by a non-zero exit whose error text contains              *)
(* "No changes detected" is shown as a warning and not as an error.        *)
(***************************************************************************)
C8_NonZeroExitNoChangesIsWarning ==
    \A i \in Inv :
        (/\ pc[i] = "Done"
         /\ exitCode[i] \in ExitCodes \ {"0"}
         /\ ~cancelRequested[i]
         /\ Includes(stderr[i], NoChangesDetected))
            => Levels(i) = {"warning"}

(***************************************************************************)
(* C9: when the process closed with status 0 and the parsed result is not  *)
(* a success, exactly one notice is shown and no commit message is         *)
(* written; the notice is a warning if and only if the error text of the   *)
(* result contains "No changes detected", otherwise it is an error that    *)
(* carries the error text of the result when there is one.                 *)
(***************************************************************************)
C9_FailureResultNotice ==
    \A i \in Inv :
        (/\ pc[i] = "Done"
         /\ promise[i].state = "resolved"
         /\ ~(/\ Truthy(Get(promise[i].value, KSuccess))
              /\ Truthy(Get(promise[i].value, KMessage))))
            => LET err == Get(promise[i].value, KError)
                   hasText == err.t = "string" /\ err.s # <<>>
                   noChanges ==
                        /\ hasText
                        /\ \E k \in 1..(Len(err.s) - 1) :
                                err.s[k] = "No changes" /\ err.s[k + 1] = " detected"
               IN  /\ writes[i] = <<>>
                   /\ Len(notices[i]) = 1
                   /\ notices[i][1].level = IF noChanges THEN "warning" ELSE "error"
                   /\ (hasText /\ ~noChanges)
                        => \E k \in 0..Len(notices[i][1].text) :
                                Substring(notices[i][1].text, k) = err.s

\* status 0 and a failure result whose error text continues after the substring
C9_Witness ==
    \E i \in Inv :
        /\ pc[i] = "Done"
        /\ promise[i].state = "resolved"
        /\ Get(promise[i].value, KError) = JStr(<<"No changes", " detected", " in repository">>)
        /\ Levels(i) = {"warning"}

(***************************************************************************)
(* C10: an invocation that ended with a successful result made exactly one *)
(* write.  If the source-control API is available and tracks at least one  *)
(* repository, the write set the input box of the first repository to the  *)
(* message, no other input box changed and the clipboard was not written;  *)
(* otherwise the write put the message on the clipboard, no input box      *)
(* changed and the notice names the clipboard.                             *)
(***************************************************************************)
C10_ScmOrClipboard ==
    \A i \in Inv :
        (/\ pc[i] = "Done"
         /\ promise[i].state = "resolved"
         /\ Truthy(Get(promise[i].value, KSuccess))
         /\ Truthy(Get(promise[i].value, KMessage)))
            => LET msg == Get(promise[i].value, KMessage)
               IN  /\ Len(writes[i]) = 1
                   /\ Len(notices[i]) = 1
                   /\ notices[i][1].level = "info"
                   /\ IF gitAvailable /\ nRepos >= 1
                      THEN /\ writes[i][1] = [target |-> "scm", value |-> msg]
                           /\ inputBox[1] = msg
                           /\ \A r \in 2..nRepos : inputBox[r] = EmptyBox
                           /\ clipboard = EmptyBox
                           /\ notices[i][1].text[1] = "Generated: \""
                      ELSE /\ writes[i][1] = [target |-> "clipboard", value |-> msg]
                           /\ clipboard = msg
                           /\ \A r \in 1..nRepos : inputBox[r] = EmptyBox
                           /\ notices[i][1].text[1] = "Generated (copied to clipboard): \""

\* two repositories: the first one received the message
C10_Witness ==
    \E i \in Inv :
        /\ pc[i] = "Done"
        /\ nRepos = 2
        /\ inputBox[1] = JStr(<<"feat: add parser">>)
        /\ writes[i] # <<>>

(***************************************************************************)
(* C11: when the process closes with status 0 and stdout holds no          *)
(* conformant payload (no JSON object with a boolean success and, when     *)
(* success is true, a string commit_message), the invocation ends with     *)
(* exactly one warning or error notice whose text is not that of a         *)
(* non-zero exit, and writes no commit message.                            *)
(***************************************************************************)
\* the output contract: a boolean success and, when it is true, a string message
ConformantPayload(v) ==
    /\ v.t = "object"
    /\ Get(v, KSuccess).t = "boolean"
    /\ Get(v, KSuccess).b => Get(v, KMessage).t = "string"

\* some stretch of the output is a JSON object that meets the output contract
HasConformantPayload(out) ==
    \E a \in 1..Len(out) : \E b \in a..Len(out) :
        /\ JSONParse(SubSeq(out, a, b)).ok
        /\ ConformantPayload(JSONParse(SubSeq(out, a, b)).v)

C11_NonConformantOutputFails ==
    \A i \in Inv :
        (/\ pc[i] = "Done"
         /\ exitCode[i] = "0"
         /\ ~cancelRequested[i]
         /\ ~HasConformantPayload(stdout[i]))
            => /\ writes[i] = <<>>
               /\ Len(notices[i]) = 1
               /\ notices[i][1].level \in {"warning", "error"}
               /\ ~Includes(notices[i][1].text, <<"Python script failed with code ">>)

(***************************************************************************)
(* C12: the promise of one invocation is settled exactly once.  The first  *)
(* of the cancellation request, the close event and the start-error event  *)
(* fixes the outcome; any later event of the same invocation leaves the    *)
(* outcome as it is and adds no notice to one already shown.               *)
(***************************************************************************)
C12_SettledOnce ==
    [][\A i \in Inv :
        /\ (promise[i].state = "pending" /\ ~cancelRequested[i] /\ cancelRequested'[i])
            => promise'[i] = Rejected(CancelReason)
        /\ (promise[i].state = "pending" /\ proc[i] = "failing" /\ proc'[i] = "errored")
            => promise'[i] = Rejected(StartReason)
        /\ (promise[i].state = "pending" /\ proc[i] = "running" /\ proc'[i] = "closed")
            => /\ promise'[i].state \in {"resolved", "rejected"}
               /\ promise'[i].state = "resolved" => exitCode'[i] = "0"
               /\ promise'[i].reason # CancelReason
               /\ promise'[i].reason # StartReason
        /\ (promise[i].state \in {"resolved", "rejected"} /\ actions' = actions)
            => /\ promise'[i] = promise[i]
               /\ Len(notices'[i]) <= 1
               /\ pc[i] = "Done" => notices'[i] = notices[i]]_vars

\* the close event that follows a failed spawn arrives after the start error was shown
C12_Witness ==
    \E i \in Inv :
        /\ promise[i] = Rejected(StartReason)
        /\ exitCode[i] = SpawnFailCode
        /\ pc[i] = "Done"
        /\ Len(notices[i]) = 1

(***************************************************************************)
(* C14: every data event appends its chunk to the buffer of its own stream *)
(* and leaves the other buffer alone, so each buffer is the concatenation  *)
(* of the chunks of its stream in arrival order.  JSON.parse is called     *)
(* only by the close handler, for status 0, and what it settles the        *)
(* promise with is computed from the whole stdout buffer and from nothing  *)
(* of stderr.                                                              *)
(***************************************************************************)
C14_SeparateBuffersParsedOnClose ==
    /\ [](\A i \in Inv : proc[i] # "closed" => parses[i] = 0)
    /\ [][\A i \in Inv :
            actions' = actions
                => /\ stdout'[i] # stdout[i]
                        => /\ \E d \in StdoutChunks : stdout'[i] = stdout[i] \o d
                           /\ stderr'[i] = stderr[i]
                   /\ stderr'[i] # stderr[i]
                        => /\ \E d \in StderrChunks : stderr'[i] = stderr[i] \o d
                           /\ stdout'[i] = stdout[i]
                   /\ chunks'[i] = chunks[i] + 1
                        => (stdout'[i] # stdout[i] \/ stderr'[i] # stderr[i])
                   /\ parses'[i] # parses[i]
                        => /\ parses'[i] = 1
                           /\ proc[i] = "running" /\ proc'[i] = "closed"
                           /\ exitCode'[i] = "0"
                           /\ promise[i].state = "pending"
                                => promise'[i] = CloseOutcome("0", stdout[i], <<>>)]_vars

\* two stdout chunks in arrival order, log text first, parsed on close
C14_Witness ==
    \E i \in Inv :
        /\ stdout[i] = LogText \o ObjSuccess
        /\ parses[i] = 1
        /\ promise[i].state = "resolved"
        /\ Get(promise[i].value, KMessage) = JStr(<<"feat: add parser">>)

(***************************************************************************)
(* C16: an invocation issues a commit-message write (to the input box, or  *)
(* by calling clipboard.writeText) only when its process has closed with   *)
(* status 0, its promise is resolved with a result whose success and       *)
(* commit_message are both truthy (for a payload that meets the output     *)
(* contract: success true and a non-empty message), and cancellation has   *)
(* not been requested; the value written is the commit_message parsed from *)
(* its own stdout, and the input box and the clipboard only ever receive   *)
(* such a value.                                                           *)
(***************************************************************************)
C16_WriteOnlyOnSuccess ==
    /\ [](\A i \in Inv :
            writes[i] # <<>>
                => LET parsed == JSONParse(Substring(stdout[i], LastIndexOf(stdout[i], LB)))
                   IN  /\ Len(writes[i]) = 1
                       /\ exitCode[i] = "0"
                       /\ parsed.ok
                       /\ promise[i] = Resolved(parsed.v)
                       /\ Truthy(Get(parsed.v, KSuccess))
                       /\ Truthy(Get(parsed.v, KMessage))
                       /\ writes[i][1].value = Get(parsed.v, KMessage))
    /\ [][/\ \A i \in Inv :
                (writes'[i] # writes[i] /\ actions' = actions)
                    => /\ ~cancelRequested[i]
                       /\ ~cancelRequested'[i]
                       /\ proc[i] = "closed"
          /\ inputBox' # inputBox
                => \E i \in Inv :
                        /\ writes'[i] # writes[i]
                        /\ writes'[i][1].target = "scm"
                        /\ inputBox' = [inputBox EXCEPT ![1] = writes'[i][1].value]
          /\ clipboard' # clipboard
                => \E i \in Inv :
                        /\ writes[i] # <<>>
                        /\ writes[i][1].target = "clipboard"
                        /\ clipboard' = writes[i][1].value]_vars

\* the clipboard received the message although the user cancelled after the write was issued
C16_Witness ==
    \E i \in Inv :
        /\ pc[i] = "Done"
        /\ cancelRequested[i]
        /\ writes[i] = <<[target |-> "clipboard", value |-> JStr(<<"feat: add parser">>)]>>
        /\ clipboard = JStr(<<"feat: add parser">>)

(***************************************************************************)
(* C13: with two overlapping invocations, every step changes the private   *)
(* state (buffers, promise, cancellation, notices) of at most one of them, *)
(* the settled outcome of an invocation is the cancellation error, the     *)
(* start error or what the close handler computes from its own buffers and *)
(* exit status, and the notice of a finished invocation is the one that    *)
(* follows from its own outcome.                                           *)
(***************************************************************************)
Private(i) ==
    <<pc[i], proc[i], stdout[i], stderr[i], chunks[i], promise[i], cancelRequested[i],
      kills[i], parses[i], exitCode[i], notices[i], args[i]>>

\* the notice that follows from the outcome of invocation i alone
OwnNotice(i) ==
    LET result == promise[i].value
        msg == Get(result, KMessage)
    IN  IF promise[i].state = "rejected" THEN CatchNotice(promise[i].reason)
        ELSE IF result.t = "null" THEN CatchNotice(TypeErrorReason)
        ELSE IF Truthy(Get(result, KSuccess)) /\ Truthy(msg) THEN
            IF gitAvailable /\ nRepos > 0
            THEN Notice("info", <<"Generated: \"">> \o ToText(msg) \o <<"\"">>)
            ELSE Notice("info", <<"Generated (copied to clipboard): \"">> \o ToText(msg) \o <<"\"">>)
        ELSE FailureNotice(result)

C13_NoCrossInvocationState ==
    /\ [][\A i, j \in Inv :
            (i # j /\ Private(i)' # Private(i)) => Private(j)' = Private(j)]_vars
    /\ [](\A i \in Inv :
            /\ promise[i].state \in {"resolved", "rejected"}
                => \/ cancelRequested[i] /\ promise[i] = Rejected(CancelReason)
                   \/ exitCode[i] \in {"none", SpawnFailCode} /\ promise[i] = Rejected(StartReason)
                   \/ /\ exitCode[i] \in ExitCodes
                      /\ promise[i] = CloseOutcome(exitCode[i], stdout[i], stderr[i])
            /\ (pc[i] = "Done" /\ promise[i].state # "none")
                => notices[i] = <<OwnNotice(i)>>)

\* the first invocation was still running when the second ran to its end:
\* the first succeeded with its own message, the second failed with its own stderr
C13_Witness ==
    /\ startNo[1] = 1 /\ startNo[2] = 2
    /\ lastClosed = 1
    /\ pc[1] = "Done" /\ pc[2] = "Done"
    /\ stdout[1] = ObjSuccess /\ stdout[2] = <<>>
    /\ exitCode[1] = "0" /\ exitCode[2] = "1"
    /\ stderr[2] = <<"ModuleNotFoundError">>
    /\ notices[1][1].level = "info" /\ notices[2][1].level = "error"

(***************************************************************************)
(* C17: when two overlapping invocations have both written the input box   *)
(* of the first repository, the box holds the message of the invocation    *)
(* whose process closed last, whichever of them the user started last.     *)
(***************************************************************************)
WroteScm(i) == pc[i] = "Done" /\ writes[i] # <<>> /\ writes[i][1].target = "scm"

C17_LastCloseWins ==
    \A i, j \in Inv :
        (i # j /\ WroteScm(i) /\ WroteScm(j) /\ lastClosed = startNo[i])
            => inputBox[1] = writes[i][1].value

\* the invocation started first closed last: the box holds its message, not the
\* message of the invocation the user started last
C17_Witness ==
    \E i, j \in Inv :
        /\ WroteScm(i) /\ WroteScm(j)
        /\ startNo[i] < startNo[j]
        /\ lastClosed = startNo[i]
        /\ writes[i][1].value # writes[j][1].value
        /\ inputBox[1] = writes[i][1].value

(***************************************************************************)
(* C18: the temperature and max-tokens arguments of a launched generator   *)
(* are the configured values, for every configured temperature from 0.0 to *)
(* 1.0, and a default (0.3, 100, gemini-1.5-flash) is passed only when the *)
(* setting is not set (for the model: undefined or the empty text).        *)
(***************************************************************************)
C18_ArgsEqualSettings ==
    \A i \in Inv :
        args[i] # NoArgs
            => /\ args[i].temperature =
                    (IF temperature.set THEN TenthsToString(temperature.n)
                     ELSE TenthsToString(DefaultTemperature))
               /\ args[i].maxTokens =
                    (IF maxTokens.set THEN ToString(maxTokens.n)
                     ELSE ToString(DefaultMaxTokens))
               /\ args[i].model =
                    (IF modelName \in {"undefined", ""} THEN DefaultModel ELSE modelName)

(***************************************************************************)
(* C15 as stated: whenever the interpreter probe or the dependency probe   *)
(* has failed, a prompt that offers an install action is on screen.        *)
(***************************************************************************)
OffersInstall(prompt) ==
    \E k \in DOMAIN prompt.items : prompt.items[k] = "Install Dependencies"

PythonProbeFailed == pythonProbe \in {"stderr", "throws"}
DepsProbeFailed == depsProbe = "failed"

C15_EachFailureOffersInstall ==
    (PythonProbeFailed \/ DepsProbeFailed)
        => \E k \in DOMAIN prompts : OffersInstall(prompts[k])

(***************************************************************************)
(* C15 amended: neither failure is silent, but only the dependency prompt  *)
(* offers an install action.  A failed interpreter probe shows one error   *)
(* prompt whose only action opens the settings, and the dependency probe   *)
(* is then not run; a failed dependency probe shows a warning prompt that  *)
(* offers 'Install Dependencies' and 'Not Now'.                            *)
(***************************************************************************)
C15_FailurePrompts ==
    /\ PythonProbeFailed
        => /\ Len(prompts) = 1
           /\ prompts[1].level = "error"
           /\ prompts[1].items = <<"Open Settings">>
           /\ ~OffersInstall(prompts[1])
           /\ depsProbe = "pending"
    /\ DepsProbeFailed
        => /\ pythonProbe = "ok"
           /\ Len(prompts) >= 1
           /\ prompts[1].level = "warning"
           /\ prompts[1].items = <<"Install Dependencies", "Not Now">>
           /\ OffersInstall(prompts[1])

\* the interpreter wrote to stderr: the error prompt was shown and the user chose
\* its only action
C15_Witness ==
    /\ pythonProbe = "stderr"
    /\ setupPc = "OpenedSettings"
    /\ prompts = <<PythonPrompt>>

====
